---- MODULE Spec2Model ----
(***************************************************************************)
(* Model of experiments/retrieve.py: main() embeds a target dataset,       *)
(* scores every prior example by its distance to the nearest target        *)
(* embedding, selects the closest fraction and exports the selected        *)
(* examples as numbered image files.                                       *)
(*                                                                         *)
(* Python sequences are 0-based; the sequences below are 1-based, so the   *)
(* example with Python index g is element g+1.  current_idx, cnt and the   *)
(* file names keep their Python values.                                    *)
(***************************************************************************)
EXTENDS Integers, Sequences, FiniteSets

\* ---- bounds of the model ----
NumObs == 2        \* distinct observations a record can hold
MaxT == 2          \* largest target dataset
MaxN == 3          \* largest prior dataset
MaxBatch == 2      \* largest config.batch_size
ThDen == 3         \* thresholds are the fractions thNum / ThDen

Obs == 0 .. (NumObs - 1)
SeqsUpTo(S, n) == UNION {[1 .. m -> S] : m \in 0 .. n}
Thresholds == 0 .. (ThDen + 1)

Min2(a, b) == IF a <= b THEN a ELSE b
Max2(a, b) == IF a >= b THEN a ELSE b

VARIABLES
    targetData,              \* records behind target_paths
    priorData,               \* records behind prior_paths
    batch_size,              \* FLAGS.config.batch_size
    thNum,                   \* FLAGS.threshold = thNum / ThDen, read at line 126
    pc,                      \* position of main
    err,                     \* exception that left main, "" if none
    target_pos,              \* records consumed from target_data_iter
    target_batch,
    target_embeddings_list,  \* target_embeddings before line 93
    target_embeddings,       \* target_embeddings after line 93
    prior_pos,               \* records consumed from prior_data_iter
    prior_batch,
    sim_scores_list,         \* sim_scores before line 118
    sim_scores,              \* sim_scores after line 118
    mask,
    cnt,
    current_idx,
    files                    \* imageio.imwrite calls so far, in order

vars == <<targetData, priorData, batch_size, thNum, pc, err, target_pos,
          target_batch, target_embeddings_list, target_embeddings, prior_pos,
          prior_batch, sim_scores_list, sim_scores, mask, cnt, current_idx,
          files>>

datasets == <<targetData, priorData, batch_size>>
inputs == <<datasets, thNum>>
targetVars == <<target_pos, target_batch, target_embeddings_list, target_embeddings>>
scoreVars == <<sim_scores_list, sim_scores>>
exportVars == <<cnt, current_idx, files>>

\* ---- dataset reader (RetrievalDataset.iterator) ----
HasNext(data, pos) == pos < Len(data)
NextBatch(data, pos, bs) == SubSeq(data, pos + 1, Min2(pos + bs, Len(data)))

\* ---- embedding agent ----
Embed(o) == <<3 * (o % 2), 4 * ((o \div 2) % 2)>>
compute_embeddings(batch) == [i \in 1 .. Len(batch) |-> Embed(batch[i])]

\* ---- numeric helpers ----
RECURSIVE Concatenate(_)
Concatenate(list) ==
    IF list = <<>> THEN <<>> ELSE Head(list) \o Concatenate(Tail(list))

Sqrt(n) == CHOOSE r \in 0 .. n : r * r = n
Euclidean(u, v) ==
    Sqrt((u[1] - v[1]) * (u[1] - v[1]) + (u[2] - v[2]) * (u[2] - v[2]))
cdist(XA, XB) ==
    [i \in 1 .. Len(XA) |-> [j \in 1 .. Len(XB) |-> Euclidean(XA[i], XB[j])]]

SetMin(S) == CHOOSE m \in S : \A x \in S : m <= x
SetMax(S) == CHOOSE m \in S : \A x \in S : m >= x
ColMax(M, j) == SetMax({M[i][j] : i \in 1 .. Len(M)})
ColMin(M, j) == SetMin({M[i][j] : i \in 1 .. Len(M)})

\* line 115: -jnp.min(cdist(target_embeddings, prior_embeddings), axis=0)
BatchScoresShort(te, pe) == [j \in 1 .. (Len(pe) - 1) |-> 0 - ColMin(cdist(te, pe), j)]
BatchScores(te, pe) == [j \in 1 .. Len(pe) |-> 0 - ColMin(cdist(te, pe), j)]

\* int(x) of a float x = num / den truncates toward zero
IntRound(num, den) == (2 * num + den) \div (2 * den)
IntTrunc(num, den) ==
    IF num >= 0 THEN num \div den ELSE 0 - ((0 - num) \div den)

\* s[:k]
SliceTo(s, k) ==
    IF k >= 0 THEN SubSeq(s, 1, Min2(k, Len(s)))
    ELSE SubSeq(s, 1, Max2(Len(s) + k, 0))

\* np.argsort(d): an ordering of the indices by ascending value; the order
\* of equal values is up to the sort
AnyOrder(d) ==
    {p \in [1 .. Len(d) -> 1 .. Len(d)] :
        \A i, j \in 1 .. Len(d) : i < j => p[i] # p[j]}
argsort(d) ==
    {p \in [1 .. Len(d) -> 1 .. Len(d)] :
        \A i, j \in 1 .. Len(d) : i < j => (p[i] # p[j] /\ d[p[i]] <= d[p[j]])}

\* np.where(m)[0], as 1-based positions in ascending order
RECURSIVE WhereFrom(_, _)
WhereFrom(m, i) ==
    IF i > Len(m) THEN <<>>
    ELSE (IF m[i] THEN <<i>> ELSE <<>>) \o WhereFrom(m, i + 1)
WhereSkipFirst(m) == IF WhereFrom(m, 1) = <<>> THEN <<>> ELSE Tail(WhereFrom(m, 1))
Where(m) == WhereFrom(m, 1)

\* mask[a : a + n]
MaskSliceFromZero(m, a, n) == SubSeq(m, 1, Min2(n, Len(m)))
MaskSlice(m, a, n) == SubSeq(m, Min2(a, Len(m)) + 1, Min2(a + n, Len(m)))

\* ---- initial state: the inputs of a run ----
Init ==
    /\ targetData \in SeqsUpTo(Obs, MaxT)
    /\ priorData \in SeqsUpTo(Obs, MaxN)
    /\ batch_size \in 1 .. MaxBatch
    /\ thNum = 0
    /\ pc = "fetch_first"
    /\ err = ""
    /\ target_pos = 0
    /\ target_batch = <<>>
    /\ target_embeddings_list = <<>>
    /\ target_embeddings = <<>>
    /\ prior_pos = 0
    /\ prior_batch = <<>>
    /\ sim_scores_list = <<>>
    /\ sim_scores = <<>>
    /\ mask = <<>>
    /\ cnt = 0
    /\ current_idx = 0
    /\ files = <<>>

\* ---- lines 62-63: target_batch = next(target_data_iter), outside any try ----
FetchFirst ==
    /\ pc = "fetch_first"
    /\ HasNext(targetData, target_pos)
    /\ target_batch' = NextBatch(targetData, target_pos, batch_size)
    /\ target_pos' = target_pos + Len(target_batch')
    /\ pc' = "target_loop"
    /\ UNCHANGED <<inputs, err, target_embeddings_list, target_embeddings,
                   prior_pos, prior_batch, scoreVars, mask, exportVars>>

FetchFirstEOS ==
    /\ pc = "fetch_first"
    /\ ~HasNext(targetData, target_pos)
    /\ pc' = "error"
    /\ err' = "StopIteration"
    /\ UNCHANGED <<inputs, targetVars, prior_pos, prior_batch, scoreVars,
                   mask, exportVars>>

\* ---- lines 85-91: embed the batch held, then fetch the next one ----
TargetEmbedNextSkipping ==
    /\ pc = "target_loop"
    /\ HasNext(targetData, target_pos)
    /\ target_embeddings_list' = target_embeddings_list
    /\ target_batch' = NextBatch(targetData, target_pos, batch_size)
    /\ target_pos' = target_pos + Len(target_batch')
    /\ UNCHANGED <<inputs, pc, err, target_embeddings, prior_pos, prior_batch,
                   scoreVars, mask, exportVars>>

TargetEmbedNext ==
    /\ pc = "target_loop"
    /\ HasNext(targetData, target_pos)
    /\ target_embeddings_list' =
           Append(target_embeddings_list, compute_embeddings(target_batch))
    /\ target_batch' = NextBatch(targetData, target_pos, batch_size)
    /\ target_pos' = target_pos + Len(target_batch')
    /\ UNCHANGED <<inputs, pc, err, target_embeddings, prior_pos, prior_batch,
                   scoreVars, mask, exportVars>>

\* ---- lines 86-106: last batch embedded, StopIteration caught, concatenate,
\*      open the prior reader ----
TargetEmbedLast ==
    /\ pc = "target_loop"
    /\ ~HasNext(targetData, target_pos)
    /\ target_embeddings_list' =
           Append(target_embeddings_list, compute_embeddings(target_batch))
    /\ target_embeddings' = Concatenate(target_embeddings_list')
    /\ prior_pos' = 0
    /\ pc' = "prior_loop"
    /\ UNCHANGED <<inputs, err, target_pos, target_batch, prior_batch,
                   scoreVars, mask, exportVars>>

\* ---- lines 108-115: score one prior batch ----
PriorScoreBatch ==
    /\ pc = "prior_loop"
    /\ HasNext(priorData, prior_pos)
    /\ prior_batch' = NextBatch(priorData, prior_pos, batch_size)
    /\ prior_pos' = prior_pos + Len(prior_batch')
    /\ sim_scores_list' =
           Append(sim_scores_list,
                  BatchScores(target_embeddings, compute_embeddings(prior_batch')))
    /\ UNCHANGED <<inputs, pc, err, targetVars, sim_scores, mask, exportVars>>

\* ---- lines 116-117: StopIteration caught, leave the loop ----
PriorEOS ==
    /\ pc = "prior_loop"
    /\ ~HasNext(priorData, prior_pos)
    /\ pc' = "concat_scores"
    /\ UNCHANGED <<inputs, err, targetVars, prior_pos, prior_batch, scoreVars,
                   mask, exportVars>>

\* ---- line 118: jnp.concatenate(sim_scores); an empty list raises ----
ConcatScores ==
    /\ pc = "concat_scores"
    /\ sim_scores_list # <<>>
    /\ sim_scores' = Concatenate(sim_scores_list)
    /\ pc' = "select"
    /\ UNCHANGED <<inputs, err, targetVars, prior_pos, prior_batch,
                   sim_scores_list, mask, exportVars>>

ConcatScoresEmpty ==
    /\ pc = "concat_scores"
    /\ sim_scores_list = <<>>
    /\ pc' = "error"
    /\ err' = "ValueError"
    /\ UNCHANGED <<inputs, targetVars, prior_pos, prior_batch, scoreVars,
                   mask, exportVars>>

\* ---- lines 124-142: the selection mask, then a fresh prior reader with
\*      cnt = 0 and current_idx = 0 ----
retrieval_distances == [i \in 1 .. Len(sim_scores) |-> 0 - sim_scores[i]]
ThresholdCount(th) == IntTrunc(th * Len(sim_scores), ThDen)
MaskOf(threshold_idx, n) ==
    [i \in 1 .. n |-> \E j \in 1 .. Len(threshold_idx) : threshold_idx[j] = i]

Select ==
    /\ pc = "select"
    /\ \E sorted_distances \in argsort(retrieval_distances) :
       \E th \in Thresholds :
           /\ thNum' = th
           /\ mask' = MaskOf(SliceTo(sorted_distances, ThresholdCount(th)),
                             Len(retrieval_distances))
    /\ prior_pos' = 0
    /\ cnt' = 0
    /\ current_idx' = 0
    /\ pc' = "export_loop"
    /\ UNCHANGED <<datasets, err, targetVars, prior_batch, scoreVars, files>>

\* ---- lines 152-158: the for loop over np.where(current_mask)[0]; first is
\*      the 0-based position in the prior dataset of the batch's first record ----
RECURSIVE ForLoopSameName(_, _, _, _, _)
ForLoopSameName(fs, c, idxs, batch, first) ==
    IF idxs = <<>> THEN [files |-> fs, cnt |-> c]
    ELSE ForLoopSameName(Append(fs, [name |-> c,
                                     record |-> first + Head(idxs) - 1,
                                     example |-> batch[Head(idxs)]]),
                         c, Tail(idxs), batch, first)

RECURSIVE ForLoop(_, _, _, _, _)
ForLoop(fs, c, idxs, batch, first) ==
    IF idxs = <<>> THEN [files |-> fs, cnt |-> c]
    ELSE ForLoop(Append(fs, [name |-> c,
                             record |-> first + Head(idxs) - 1,
                             example |-> batch[Head(idxs)]]),
                 c + 1, Tail(idxs), batch, first)

\* ---- lines 143-158: fetch a batch, slice the mask, advance current_idx,
\*      write the selected records ----
ExportBatch ==
    /\ pc = "export_loop"
    /\ HasNext(priorData, prior_pos)
    /\ prior_batch' = NextBatch(priorData, prior_pos, batch_size)
    /\ prior_pos' = prior_pos + Len(prior_batch')
    /\ current_idx' = current_idx + Len(prior_batch')
    /\ LET current_mask == MaskSlice(mask, current_idx, Len(prior_batch'))
           written == ForLoop(files, cnt, Where(current_mask), prior_batch',
                              prior_pos)
       IN  /\ files' = written.files
           /\ cnt' = written.cnt
    /\ UNCHANGED <<inputs, pc, err, targetVars, scoreVars, mask>>

\* ---- lines 148-149: StopIteration caught, the export pass ends ----
ExportEOSUncaught ==
    /\ pc = "export_loop"
    /\ ~HasNext(priorData, prior_pos)
    /\ pc' = "error"
    /\ err' = "StopIteration"
    /\ UNCHANGED <<inputs, targetVars, prior_pos, prior_batch, scoreVars,
                   mask, exportVars>>

ExportEOSContinue ==
    /\ pc = "export_loop"
    /\ ~HasNext(priorData, prior_pos)
    /\ UNCHANGED vars

ExportEOS ==
    /\ pc = "export_loop"
    /\ ~HasNext(priorData, prior_pos)
    /\ pc' = "done"
    /\ UNCHANGED <<inputs, err, targetVars, prior_pos, prior_batch, scoreVars,
                   mask, exportVars>>

Next ==
    \/ FetchFirst
    \/ FetchFirstEOS
    \/ TargetEmbedNext
    \/ TargetEmbedLast
    \/ PriorScoreBatch
    \/ PriorEOS
    \/ ConcatScores
    \/ ConcatScoresEmpty
    \/ Select
    \/ ExportBatch
    \/ ExportEOS

Spec == Init /\ [][Next]_vars

\* main is one thread of control: it keeps executing while a statement remains.
\* The target records all hold one observation here; the prior records, the
\* sizes and the threshold vary as in Spec.
LiveInit == Init /\ \A i \in 1 .. Len(targetData) : targetData[i] = 0
LiveSpec == LiveInit /\ [][Next]_vars /\ WF_vars(Next)

\* ======================= properties =======================
N == Len(priorData)
T == Len(targetData)
PostSelect == pc \in {"export_loop", "done"}
InExport == pc \in {"export_loop", "done"}
AfterTarget ==
    \/ pc \in {"prior_loop", "concat_scores", "select"}
    \/ PostSelect
    \/ (pc = "error" /\ err = "ValueError")
Selected == {i \in 1 .. Len(mask) : mask[i]}
ThresholdInUnit == thNum >= 0 /\ thNum <= ThDen
FloorCount == (thNum * N) \div ThDen
NearestTarget(i) ==
    SetMin({Euclidean(Embed(targetData[t]), Embed(priorData[i])) : t \in 1 .. T})
KthSmallest(d, k) ==
    CHOOSE v \in {d[i] : i \in 1 .. Len(d)} :
        /\ Cardinality({i \in 1 .. Len(d) : d[i] < v}) < k
        /\ Cardinality({i \in 1 .. Len(d) : d[i] <= v}) >= k
BatchLen(b) == Min2(batch_size, N - (b - 1) * batch_size)

\* C1: for a threshold in [0,1], after the selection step the mask has
\* length N and exactly floor(threshold * N) true entries; threshold 0
\* selects none and threshold 1 selects all N.
C1_MaskCount ==
    (PostSelect /\ ThresholdInUnit) =>
        /\ Len(mask) = N
        /\ Cardinality(Selected) = FloorCount
        /\ (thNum = 0 => Selected = {})
        /\ (thNum = ThDen => Selected = 1 .. N)

C1_Witness ==
    /\ PostSelect
    /\ thNum > 0 /\ thNum < ThDen
    /\ (thNum * N) % ThDen # 0
    /\ Selected # {}
    /\ Selected # 1 .. N

\* C2 as stated: with k = floor(threshold * N), every example whose distance
\* is <= the k-th smallest distance is selected and none with a strictly
\* greater distance is selected.
C2_Original ==
    (PostSelect /\ ThresholdInUnit /\ FloorCount >= 1) =>
        LET d == retrieval_distances
            kth == KthSmallest(d, FloorCount)
        IN  \A i \in 1 .. N :
                /\ (d[i] <= kth => mask[i])
                /\ (d[i] > kth => ~mask[i])

\* C2 amended: every example strictly nearer than the k-th smallest distance
\* is selected, none strictly farther is selected (examples tied at the k-th
\* smallest distance may or may not be), and every selected example's
\* distance is <= every unselected example's distance.
C2_Nearest ==
    PostSelect =>
        LET d == retrieval_distances
        IN  /\ \A i, j \in 1 .. N : (mask[i] /\ ~mask[j]) => d[i] <= d[j]
            /\ (ThresholdInUnit /\ FloorCount >= 1) =>
                   LET kth == KthSmallest(d, FloorCount)
                   IN  \A i \in 1 .. N :
                           /\ (d[i] < kth => mask[i])
                           /\ (d[i] > kth => ~mask[i])

C2_Witness ==
    /\ PostSelect
    /\ ThresholdInUnit
    /\ FloorCount >= 1
    /\ \E i, j \in 1 .. N :
           /\ mask[i] /\ ~mask[j]
           /\ retrieval_distances[i] = retrieval_distances[j]
    /\ \E i, j \in 1 .. N :
           /\ mask[i] /\ ~mask[j]
           /\ retrieval_distances[i] < retrieval_distances[j]

\* C3: the i-th similarity score, in stream order over all prior batches, is
\* the negated minimum over every record of the target dataset of the
\* distance between that record's embedding and prior record i's embedding.
C3_Scores ==
    /\ LET scores == Concatenate(sim_scores_list)
       IN  \A i \in 1 .. Len(scores) : scores[i] = 0 - NearestTarget(i)
    /\ (sim_scores = <<>> \/ sim_scores = Concatenate(sim_scores_list))
    /\ (pc \in {"select", "export_loop", "done"} => Len(sim_scores) = N)

C3_Witness ==
    /\ pc = "select"
    /\ Len(target_embeddings_list) >= 2
    /\ Len(sim_scores_list) >= 2
    /\ \E i \in 1 .. N :
           sim_scores[i] # 0 - Euclidean(Embed(targetData[1]), Embed(priorData[i]))

\* C4: each scored batch of B records appends exactly B scores, and when the
\* prior pass reaches end-of-sequence the score sequence has exactly N
\* entries, for any batch size including a shorter final batch.
C4_ScoreCount ==
    /\ \A b \in 1 .. Len(sim_scores_list) : Len(sim_scores_list[b]) = BatchLen(b)
    /\ (pc = "prior_loop" => Len(Concatenate(sim_scores_list)) = prior_pos)
    /\ (pc = "concat_scores" => Len(Concatenate(sim_scores_list)) = N)
    /\ (PostSelect \/ pc = "select" => Len(sim_scores) = N)

C4_Witness ==
    /\ pc = "concat_scores"
    /\ N > batch_size
    /\ N % batch_size # 0
    /\ Len(Concatenate(sim_scores_list)) = N

\* C5: the export pass writes exactly one file per true mask entry, so the
\* number of files written equals the number of true entries, and an
\* all-false mask yields no file.
C5_FileCount ==
    /\ (pc = "done" =>
            /\ Len(files) = Cardinality(Selected)
            /\ {files[j].record + 1 : j \in 1 .. Len(files)} = Selected)
    /\ ((InExport /\ Selected = {}) => files = <<>>)

C5_Witness ==
    /\ pc = "done"
    /\ Len(files) >= 2
    /\ Selected # 1 .. N

\* C6 as stated: in every pass and for every dataset size, the empty dataset
\* included, end-of-sequence never leaves main as an error.
C6_Original == ~(pc = "error" /\ err = "StopIteration")

\* C6 amended: end-of-sequence raised inside the loop of the target, prior or
\* export pass ends that pass normally; it leaves main as an error only from
\* the fetch before the target loop, that is, only when the target dataset
\* is empty.
C6_EndOfSequence ==
    /\ (err = "StopIteration" =>
            (pc = "error" /\ T = 0 /\ target_embeddings_list = <<>>))
    /\ (T > 0 => err # "StopIteration")

C6_Witness ==
    /\ pc = "done"
    /\ T > 0
    /\ N > 0
    /\ target_pos = T
    /\ prior_pos = N
    /\ err = ""

\* C7: in the export pass cnt starts at 0 and counts the files written, the
\* j-th file written is named j-1, files are written in increasing order of
\* prior-record index, and no two writes of a run share a name.
C7_Counter ==
    /\ (InExport => cnt = Len(files))
    /\ \A j \in 1 .. Len(files) : files[j].name = j - 1
    /\ \A i, j \in 1 .. Len(files) :
           i < j => (files[i].name # files[j].name
                     /\ files[i].record < files[j].record)

C7_Witness ==
    /\ pc = "done"
    /\ cnt >= 2
    /\ files[2].record > files[1].record + 1

\* C8: with a non-empty target dataset main comes to an end (the export pass
\* finishes, or line 118 raises on an empty prior dataset), and the passes
\* run in order: the target embeddings are complete before any prior batch
\* is scored, and the mask is complete before any file is written.
C8_Order ==
    /\ (sim_scores_list # <<>> =>
            (target_pos = T /\ Len(target_embeddings) = T))
    /\ (files # <<>> =>
            (Len(sim_scores) = N /\ Len(mask) = N /\ pc \in {"export_loop", "done"}))
    /\ (pc \in {"fetch_first", "target_loop"} => (sim_scores_list = <<>> /\ mask = <<>>))
    /\ (pc \in {"prior_loop", "concat_scores", "select"} => (mask = <<>> /\ files = <<>>))

C8_Terminates ==
    /\ (T > 0) ~> (pc = "done" \/ (pc = "error" /\ err = "ValueError"))
    /\ []C8_Order

C8_Witness ==
    /\ pc = "done"
    /\ Len(target_embeddings_list) >= 2
    /\ Len(sim_scores_list) >= 2
    /\ files # <<>>

\* C9: every target batch, the first one included, is embedded exactly once
\* and in reader order: once the target pass is over target_embeddings holds
\* the embedding of each of the T target records in order, and it keeps that
\* value through the prior pass.
C9_TargetEmbeddings ==
    /\ (pc = "target_loop" =>
            Concatenate(target_embeddings_list) \o compute_embeddings(target_batch)
                = [i \in 1 .. target_pos |-> Embed(targetData[i])])
    /\ (AfterTarget =>
            target_embeddings = [i \in 1 .. T |-> Embed(targetData[i])])

C9_Witness ==
    /\ pc = "concat_scores"
    /\ T >= 2
    /\ Len(target_embeddings_list) >= 2
    /\ sim_scores_list # <<>>
    /\ Len(target_embeddings) = T

\* C10: in the export pass current_idx is the number of records of the
\* earlier batches, a record is written exactly when the mask entry of its
\* index in the scoring pass is true, and current_idx is N at the end.
C10_ExportIndex ==
    /\ (InExport => current_idx = prior_pos)
    /\ (pc = "export_loop" =>
            {files[j].record + 1 : j \in 1 .. Len(files)}
                = {i \in Selected : i <= current_idx})
    /\ \A j \in 1 .. Len(files) :
           /\ mask[files[j].record + 1]
           /\ files[j].example = priorData[files[j].record + 1]
    /\ (pc = "done" => current_idx = N)

C10_Witness ==
    /\ pc = "done"
    /\ current_idx = N
    /\ N > batch_size
    /\ \E j \in 1 .. Len(files) : files[j].record >= batch_size
    /\ \E i \in 1 .. N : ~mask[i]

====
